---- MODULE Spec2Model ----
(***************************************************************************)
(* Target inference of the PHPUnit plugin (packages/phpunit): the batch    *)
(* entry point createNodesV2 with its memoization store, the per-file      *)
(* createNodesInternal, the target builder buildPhpUnitTargets and the     *)
(* output-path helpers.                                                    *)
(*                                                                         *)
(* A JavaScript string is a sequence of one-character strings, so that     *)
(* every conversion (split, join, replace, startsWith) is computed.        *)
(* An optional value (undefined or a value) is a set with at most one      *)
(* element.  Paths follow node:path on POSIX.                              *)
(***************************************************************************)
EXTENDS Integers, Sequences, FiniteSets, TLC

VARIABLES
  nxNamedInputs,      \* the workspace: the named inputs nx.json declares
  projects,           \* the workspace: each project root's manifest and configuration
  disk,               \* the persisted store phpUnit-<optionsHash>.hash, if it exists
  pluginOptions,      \* the plugin options of the batches
  phase,              \* createNodesV2: "idle", "running", "finally", "finished"
  configFilePaths,    \* the batch's configuration files
  targetsCache,       \* the batch's in-memory store
  pc,                 \* createNodesInternal of each file: where it stands
  res,                \* createNodesInternal of each file: what it returned
  outcome,            \* how the batch ends: "none", "returned", "threw"
  writes,             \* writeTargetsToCache calls of the batch
  runsSinceEdit,      \* batches begun since the workspace last changed (2: two or more)
  nIn, nOut,          \* normalizeOutput: arguments, result
  bIn, bOut           \* target inference of one file: arguments, result

batchVars == <<nxNamedInputs, projects, disk, pluginOptions, phase, configFilePaths,
               targetsCache, pc, res, outcome, writes, runsSinceEdit>>
callVars == <<nIn, nOut, bIn, bOut>>
vars == <<batchVars, callVars>>

(***************************************************************************)
(* Strings                                                                 *)
(***************************************************************************)
Undefined == {}
Some(v) == {v}
Get(o) == CHOOSE v \in o : TRUE

StartsWith(s, p) == Len(s) >= Len(p) /\ SubSeq(s, 1, Len(p)) = p
EndsWith(s, p) == Len(s) >= Len(p) /\ SubSeq(s, Len(s) - Len(p) + 1, Len(s)) = p

RECURSIVE SplitFrom(_, _, _, _)
SplitFrom(s, sep, i, cur) ==
  IF i > Len(s) THEN <<cur>>
  ELSE IF s[i] = sep THEN <<cur>> \o SplitFrom(s, sep, i + 1, <<>>)
  ELSE SplitFrom(s, sep, i + 1, Append(cur, s[i]))

\* String.prototype.split(sep) for a one-character separator
Split(s, sep) == SplitFrom(s, sep, 1, <<>>)

RECURSIVE JoinFrom(_, _, _)
JoinFrom(parts, sep, i) ==
  IF i > Len(parts) THEN <<>>
  ELSE IF i = Len(parts) THEN parts[i]
  ELSE parts[i] \o sep \o JoinFrom(parts, sep, i + 1)

\* Array.prototype.join(sep)
Join(parts, sep) == JoinFrom(parts, sep, 1)

\* String.prototype.replace(/[cs]/g, by) for a set cs of characters
ReplaceAll(s, cs, by) == [i \in 1..Len(s) |-> IF s[i] \in cs THEN by ELSE s[i]]

RECURSIVE SelectFrom(_, _, _)
SelectFrom(xs, keep, i) ==
  IF i > Len(xs) THEN <<>>
  ELSE (IF keep[i] THEN <<xs[i]>> ELSE <<>>) \o SelectFrom(xs, keep, i + 1)

(***************************************************************************)
(* node:path (posix)                                                       *)
(***************************************************************************)
Slash == <<"/">>
Dot == <<".">>
DotDot == <<".", ".">>

\* the process's working directory, against which relative paths resolve
Cwd == <<"/", "w">>

isAbsolute(p) == Len(p) > 0 /\ p[1] = "/"

RECURSIVE normalizeFrom(_, _, _, _)
normalizeFrom(segs, allowAboveRoot, i, acc) ==
  IF i > Len(segs) THEN acc
  ELSE LET s == segs[i] IN
    IF s = <<>> \/ s = Dot
      THEN normalizeFrom(segs, allowAboveRoot, i + 1, acc)
    ELSE IF s = DotDot
      THEN IF Len(acc) > 0 /\ acc[Len(acc)] # DotDot
             THEN normalizeFrom(segs, allowAboveRoot, i + 1, SubSeq(acc, 1, Len(acc) - 1))
           ELSE IF allowAboveRoot
             THEN normalizeFrom(segs, allowAboveRoot, i + 1, Append(acc, s))
           ELSE normalizeFrom(segs, allowAboveRoot, i + 1, acc)
    ELSE normalizeFrom(segs, allowAboveRoot, i + 1, Append(acc, s))

\* node's normalizeString: the segments left after "", "." and ".." are resolved
normalizeString(p, allowAboveRoot) ==
  normalizeFrom(Split(p, "/"), allowAboveRoot, 1, <<>>)

pathNormalize(p) ==
  IF p = <<>> THEN Dot
  ELSE LET abs == isAbsolute(p)
           trailing == p[Len(p)] = "/"
           body == Join(normalizeString(p, ~abs), Slash)
       IN IF body = <<>>
            THEN (IF abs THEN Slash ELSE IF trailing THEN <<".", "/">> ELSE Dot)
          ELSE (IF abs THEN Slash ELSE <<>>) \o body \o (IF trailing THEN Slash ELSE <<>>)

\* path.join(...parts)
pathJoin(parts) ==
  LET nonEmpty == SelectFrom(parts, [i \in 1..Len(parts) |-> parts[i] # <<>>], 1)
  IN IF nonEmpty = <<>> THEN Dot ELSE pathNormalize(Join(nonEmpty, Slash))

RECURSIVE resolveFrom(_, _, _)
resolveFrom(parts, i, acc) ==
  IF isAbsolute(acc) THEN acc
  ELSE IF i < 1 THEN Cwd \o Slash \o acc
  ELSE IF parts[i] = <<>> THEN resolveFrom(parts, i - 1, acc)
  ELSE resolveFrom(parts, i - 1, parts[i] \o Slash \o acc)

\* the segments of path.resolve(...parts): an absolute, normalized path
resolveSegs(parts) == normalizeString(resolveFrom(parts, Len(parts), <<>>), FALSE)

pathResolve(parts) == Slash \o Join(resolveSegs(parts), Slash)

RECURSIVE commonLen(_, _, _)
commonLen(a, b, i) ==
  IF i > Len(a) \/ i > Len(b) \/ a[i] # b[i] THEN i - 1 ELSE commonLen(a, b, i + 1)

\* path.relative(from, to)
pathRelative(from, to) ==
  LET f == resolveSegs(<<from>>)
      t == resolveSegs(<<to>>)
      c == commonLen(f, t, 1)
      ups == [i \in 1..(Len(f) - c) |-> DotDot]
  IN Join(ups \o SubSeq(t, c + 1, Len(t)), Slash)

RECURSIVE stripTrailingSlashes(_)
stripTrailingSlashes(p) ==
  IF Len(p) > 1 /\ p[Len(p)] = "/" THEN stripTrailingSlashes(SubSeq(p, 1, Len(p) - 1)) ELSE p

lastIndexOf(s, c) ==
  LET hits == {i \in 1..Len(s) : s[i] = c}
  IN IF hits = {} THEN 0 ELSE CHOOSE i \in hits : \A j \in hits : j <= i

\* path.parse(p): dir, base and ext
pathParse(p) ==
  LET q == stripTrailingSlashes(p)
      k == lastIndexOf(q, "/")
      base == IF q = Slash THEN <<>> ELSE SubSeq(q, k + 1, Len(q))
      dir == IF k = 0 THEN <<>> ELSE IF k = 1 THEN Slash ELSE SubSeq(q, 1, k - 1)
      d == lastIndexOf(base, ".")
      ext == IF d <= 1 \/ base = DotDot THEN <<>> ELSE SubSeq(base, d, Len(base))
  IN [dir |-> dir, base |-> base, ext |-> ext]

\* path.dirname(p)
dirname(p) ==
  LET q == stripTrailingSlashes(p)
      k == lastIndexOf(q, "/")
  IN IF k = 0 THEN Dot ELSE IF k = 1 THEN Slash ELSE stripTrailingSlashes(SubSeq(q, 1, k - 1))

(***************************************************************************)
(* @nx/devkit path helpers                                                 *)
(***************************************************************************)
UpperCase ==
  {"A", "B", "C", "D", "E", "F", "G", "H", "I", "J", "K", "L", "M",
   "N", "O", "P", "Q", "R", "S", "T", "U", "V", "W", "X", "Y", "Z"}

\* normalizePath: drops a leading drive letter, turns backslashes into slashes
normalizePath(p) ==
  LET noDrive == IF Len(p) >= 2 /\ p[1] \in UpperCase /\ p[2] = ":"
                   THEN SubSeq(p, 3, Len(p)) ELSE p
  IN Join(Split(noDrive, "\\"), Slash)

joinPathFragments(parts) == normalizePath(pathJoin(parts))

(***************************************************************************)
(* Output paths                                                            *)
(***************************************************************************)
ProjectRootToken == <<"{", "p", "r", "o", "j", "e", "c", "t", "R", "o", "o", "t", "}">>
WorkspaceRootToken ==
  <<"{", "w", "o", "r", "k", "s", "p", "a", "c", "e", "R", "o", "o", "t", "}">>

normalizeOutput(path, workspaceRoot, projectRoot) ==
  LET fullProjectRoot == pathResolve(<<workspaceRoot, projectRoot>>)
      fullPath == pathResolve(<<fullProjectRoot, path>>)
      pathRelativeToProjectRoot == normalizePath(pathRelative(fullProjectRoot, fullPath))
  IN IF StartsWith(pathRelativeToProjectRoot, DotDot)
       THEN joinPathFragments(<<WorkspaceRootToken, pathRelative(workspaceRoot, fullPath)>>)
     ELSE joinPathFragments(<<ProjectRootToken, pathRelativeToProjectRoot>>)

addSubfolderToOutput(output, subfolder) ==
  IF subfolder = Undefined \/ Get(subfolder) = <<>> THEN output
  ELSE LET parts == pathParse(output) IN
    IF parts.ext # <<>>
      THEN pathJoin(<<parts.dir, Get(subfolder), parts.base>>)
    ELSE pathJoin(<<output, Get(subfolder)>>)

\* a value in a condition: undefined and '' are falsy
Truthy(o) == o # Undefined /\ Get(o) # <<>>

\* a variant of SetAdd that keeps duplicates, as Array.prototype.push would
SetAddAsPush(outputs, x) == Append(outputs, x)

\* Set.prototype.add, the set kept in insertion order
SetAdd(outputs, x) ==
  IF \E i \in 1..Len(outputs) : outputs[i] = x THEN outputs ELSE Append(outputs, x)

getTargetOutputs(testOutput, coverageOutput, workspaceRoot, projectRoot, subFolder) ==
  LET outputs == SetAdd(<<>>, normalizeOutput(addSubfolderToOutput(testOutput, subFolder),
                                              workspaceRoot, projectRoot))
  IN IF Truthy(coverageOutput)
       THEN SetAdd(outputs,
                   normalizeOutput(addSubfolderToOutput(Get(coverageOutput), subFolder),
                                   workspaceRoot, projectRoot))
     ELSE outputs

(***************************************************************************)
(* Options and the parsed configuration                                    *)
(***************************************************************************)
DefaultTargetName == <<"t", "e", "s", "t">>
DefaultCiTargetName == <<"t", "e", "s", "t", "-", "c", "i">>

\* a ?? b
Coalesce(o, d) == IF o = Undefined THEN Some(d) ELSE o

\* a || b
OrElse(o, d) == IF Truthy(o) THEN o ELSE Some(d)

\* a variant of normalizeOptions that defaults with || instead of ??
normalizeOptionsOr(options) ==
  [targetName |-> Get(OrElse(options.targetName, DefaultTargetName)),
   ciTargetName |-> OrElse(options.ciTargetName, DefaultCiTargetName)]

normalizeOptions(options) ==
  [targetName |-> Get(Coalesce(options.targetName, DefaultTargetName)),
   ciTargetName |-> Coalesce(options.ciTargetName, DefaultCiTargetName)]

DefaultTestOutput ==
  <<".", "p", "h", "p", "u", "n", "i", "t", ".", "c", "a", "c", "h", "e", "/",
    "t", "e", "s", "t", "-", "r", "e", "s", "u", "l", "t", "s">>

getTestOutput(phpUnitConfig) ==
  IF Truthy(phpUnitConfig.cacheResultFile)
    THEN Get(phpUnitConfig.cacheResultFile)
  ELSE DefaultTestOutput

getCoverageOutput(phpUnitConfig) ==
  IF phpUnitConfig.coverage = Undefined THEN Undefined
  ELSE Get(phpUnitConfig.coverage).cacheDirectory

(***************************************************************************)
(* Test file discovery                                                     *)
(***************************************************************************)
TestPhp == <<"T", "e", "s", "t", ".", "p", "h", "p">>

\* a variant of createMatcher for the pattern '**/*.php'
createMatcherAnyPhp(path) ==
  LET segs == Split(path, "/")
  IN /\ \A i \in 1..Len(segs) : Len(segs[i]) > 0 /\ segs[i][1] # "."
     /\ EndsWith(segs[Len(segs)], <<".", "p", "h", "p">>)

\* minimatch(path, '**/*Test.php'): no segment may start with a dot
createMatcher(path) ==
  LET segs == Split(path, "/")
  IN /\ \A i \in 1..Len(segs) : Len(segs[i]) > 0 /\ segs[i][1] # "."
     /\ EndsWith(segs[Len(segs)], TestPhp)

\* the workspace's files that lie under dir, in enumeration order
getFilesInDirectoryUsingContext(files, dir) ==
  LET d == normalizeString(dir, FALSE)
      under(f) == LET fs == Split(f, "/")
                  IN Len(fs) > Len(d) /\ SubSeq(fs, 1, Len(d)) = d
  IN SelectFrom(files, [i \in 1..Len(files) |-> under(files[i])], 1)

\* the files forEachTestFile hands to its callback, in order
forEachTestFile(files, path) ==
  LET found == getFilesInDirectoryUsingContext(files, path)
  IN SelectFrom(found, [i \in 1..Len(found) |-> createMatcher(found[i])], 1)

(***************************************************************************)
(* buildPhpUnitTargets                                                     *)
(***************************************************************************)
PhpUnitCommand == <<"./vendor/bin/phpunit">>
groupName == "Test (CI)"

Put(m, k, v) == [x \in DOMAIN m \cup {k} |-> IF x = k THEN v ELSE m[x]]
EmptyMap == [x \in {} |-> {}]

help == [command |-> <<"./vendor/bin/phpunit --help">>, example |-> [args |-> <<"--colors">>]]

targetInputs(namedInputs) ==
  IF "production" \in namedInputs THEN <<"default", "^production">>
  ELSE <<"default", "^default">>

baseTargetConfig ==
  [command |-> Some(PhpUnitCommand),
   options |-> Some([cwd |-> ProjectRootToken]),
   parallelism |-> FALSE,
   executor |-> Undefined,
   dependsOn |-> Undefined,
   metadata |-> [technologies |-> <<"php">>,
                 description |-> <<"Runs PHPUnit Tests">>,
                 nonAtomizedTarget |-> Undefined,
                 help |-> help]]

\* the target of one test file (the callback's body)
ciFileTarget(ciBaseTargetConfig, relativeSpecFilePath, outputs) ==
  [ciBaseTargetConfig EXCEPT
     !.outputs = outputs,
     !.command = Some(PhpUnitCommand \o <<" ">> \o relativeSpecFilePath),
     !.metadata = [technologies |-> <<"php">>,
                   description |-> <<"Runs PHPUnit Tests in ">> \o relativeSpecFilePath
                                     \o <<" in CI">>,
                   nonAtomizedTarget |-> Undefined,
                   help |-> help]]

outputSubfolderOf(projectRoot, testFile) ==
  ReplaceAll(ReplaceAll(pathRelative(projectRoot, testFile), {"/", "\\"}, "-"), {"."}, "-")

\* the callback of forEachTestFile: acc holds targets, ciTargetGroup, dependsOn
addCiFileTarget(acc, ciBaseTargetConfig, outs, ciTargetName, projectRoot, outputSubfolder, relativeSpecFilePath) ==
  LET targetName == ciTargetName \o <<"-", "-">> \o relativeSpecFilePath
  IN [targets |->
        Put(acc.targets, targetName,
            ciFileTarget(ciBaseTargetConfig, relativeSpecFilePath,
                         getTargetOutputs(outs.testOutput, outs.coverageOutput,
                                          outs.workspaceRoot, projectRoot,
                                          Some(outputSubfolder)))),
      ciTargetGroup |-> Append(acc.ciTargetGroup, targetName),
      dependsOn |-> Append(acc.dependsOn,
                           [target |-> targetName, projects |-> "self",
                            params |-> "forward"])]

RECURSIVE ciFileTargets(_, _, _, _, _, _, _)
\* the callback applied to testFiles[i..], in order
ciFileTargets(testFiles, i, acc, ciBaseTargetConfig, outs, ciTargetName, projectRoot) ==
  IF i > Len(testFiles) THEN acc
  ELSE ciFileTargets(testFiles, i + 1,
         addCiFileTarget(acc, ciBaseTargetConfig, outs, ciTargetName, projectRoot,
                         outputSubfolderOf(projectRoot, testFiles[i]),
                         normalizePath(pathRelative(projectRoot, testFiles[i]))),
         ciBaseTargetConfig, outs, ciTargetName, projectRoot)

aggregatorTarget(ciBaseTargetConfig, dependsOn, targetName) ==
  [command |-> Undefined,
   options |-> Undefined,
   executor |-> Some("nx:noop"),
   cache |-> ciBaseTargetConfig.cache,
   inputs |-> ciBaseTargetConfig.inputs,
   outputs |-> ciBaseTargetConfig.outputs,
   dependsOn |-> Some(dependsOn),
   parallelism |-> FALSE,
   metadata |-> [technologies |-> <<"php">>,
                 description |-> <<"Runs PHPUnit Tests in CI">>,
                 nonAtomizedTarget |-> Some(targetName),
                 help |-> help]]

\* phpUnitConfig.phpunit.testsuites.testsuite.directory: a TypeError when a link
\* of the chain is undefined
suiteChainBroken(phpUnitConfig) ==
  \/ phpUnitConfig.phpunit = Undefined
  \/ Get(phpUnitConfig.phpunit).testsuites = Undefined
  \/ Get(Get(phpUnitConfig.phpunit).testsuites).testsuite = Undefined

suiteDirectory(phpUnitConfig) ==
  Get(Get(Get(phpUnitConfig.phpunit).testsuites).testsuite).directory

Threw == [threw |-> TRUE, targets |-> EmptyMap, metadata |-> Undefined]

\* the test-suite source directory
testDirOf(projectRoot, phpUnitConfig) ==
  IF Truthy(suiteDirectory(phpUnitConfig))
    THEN joinPathFragments(<<projectRoot, Get(suiteDirectory(phpUnitConfig))>>)
  ELSE projectRoot

\* the aggregator and the group, added once every test file has its target
withAggregator(acc, ciBaseTargetConfig, options) ==
  [threw |-> FALSE,
   targets |-> Put(acc.targets, Get(options.ciTargetName),
                   aggregatorTarget(ciBaseTargetConfig, acc.dependsOn, options.targetName)),
   metadata |-> Some([targetGroups |->
                        [g \in {groupName} |->
                           Append(acc.ciTargetGroup, Get(options.ciTargetName))]])]

\* buildPhpUnitTargets from the base target on
buildFromBase(projectRoot, options, context, phpUnitConfig, baseTarget) ==
  IF ~Truthy(options.ciTargetName)
    THEN [threw |-> FALSE,
          targets |-> Put(EmptyMap, options.targetName, baseTarget),
          metadata |-> Undefined]
  ELSE IF suiteChainBroken(phpUnitConfig) THEN Threw
  ELSE withAggregator(
         ciFileTargets(forEachTestFile(context.files, testDirOf(projectRoot, phpUnitConfig)),
                       1,
                       [targets |-> Put(EmptyMap, options.targetName, baseTarget),
                        ciTargetGroup |-> <<>>, dependsOn |-> <<>>],
                       baseTarget,
                       [testOutput |-> getTestOutput(phpUnitConfig),
                        coverageOutput |-> getCoverageOutput(phpUnitConfig),
                        workspaceRoot |-> context.workspaceRoot],
                       Get(options.ciTargetName), projectRoot),
         baseTarget, options)

\* context: workspaceRoot, files (the workspace's files), namedInputs, configs
buildPhpUnitTargets(configFilePath, projectRoot, options, context) ==
  buildFromBase(projectRoot, options, context, context.configs[configFilePath],
    baseTargetConfig
      @@ [cache |-> TRUE,
          inputs |-> targetInputs(context.namedInputs),
          outputs |-> getTargetOutputs(getTestOutput(context.configs[configFilePath]),
                                       getCoverageOutput(context.configs[configFilePath]),
                                       context.workspaceRoot, projectRoot, Undefined)])

(***************************************************************************)
(* Inputs: the workspace the targets are inferred in                       *)
(***************************************************************************)
WorkspaceRoot == <<"/", "w">>
RootP == <<"p">>
RootQ == <<"q">>
PhpUnitXml(root) == root \o <<"/", "p", "h", "p", "u", "n", "i", "t", ".", "x", "m", "l">>

DirT == <<"t">>
Coverage == <<"c", "o", "v", "e", "r", "a", "g", "e">>
CustomOut == <<"o", "/", "r", ".", "c">>

FileA == <<"p", "/", "t", "/", "a">> \o TestPhp
FileAB == <<"p", "/", "t", "/", "a", "/", "b">> \o TestPhp
FileAdashB == <<"p", "/", "t", "/", "a", "-", "b">> \o TestPhp
FileX == <<"p", "/", "t", "/", "x", ".", "p", "h", "p">>
FileS == <<"p", "/", "s">> \o TestPhp
FilePool == {FileA, FileAB, FileAdashB, FileX, FileS}

\* how many files a workspace listing holds at most
MaxFiles == 3

\* the listings: the pool's files in any enumeration order, none twice
Listings ==
  {l \in UNION {[1..n -> FilePool] : n \in 0..MaxFiles} :
     \A i, j \in 1..Len(l) : i # j => l[i] # l[j]}

Suite(directory) == Some([testsuites |-> Some([testsuite |-> Some([directory |-> directory])])])

CfgFull == [cacheResultFile |-> Some(CustomOut),
            coverage |-> Some([cacheDirectory |-> Some(Coverage)]),
            phpunit |-> Suite(Some(DirT))]
CfgBare == [cacheResultFile |-> Undefined,
            coverage |-> Undefined,
            phpunit |-> Suite(Undefined)]
CfgSame == [cacheResultFile |-> Some(Coverage),
            coverage |-> Some([cacheDirectory |-> Some(Coverage)]),
            phpunit |-> Suite(Some(DirT))]
CfgNoSuites == [cacheResultFile |-> Undefined,
                coverage |-> Some([cacheDirectory |-> Undefined]),
                phpunit |-> Some([testsuites |-> Undefined])]
Configs == {CfgFull, CfgBare, CfgSame, CfgNoSuites}

NameC == <<"c">>
OptionChoices ==
  [targetName : {Undefined, Some(NameC)},
   ciTargetName : {Undefined, Some(<<>>), Some(NameC)}]

NamedInputChoices == {{"default"}, {"default", "production"}}

BuildInputs ==
  [options : OptionChoices, config : Configs, files : Listings,
   namedInputs : NamedInputChoices]

contextOf(in) ==
  [workspaceRoot |-> WorkspaceRoot,
   files |-> in.files,
   namedInputs |-> in.namedInputs,
   configs |-> [f \in {PhpUnitXml(RootP)} |-> in.config]]

\* no batch: the variables of createNodesV2 at rest
NoBatch ==
  /\ nxNamedInputs = {"default"}
  /\ projects = EmptyMap
  /\ disk = Undefined
  /\ pluginOptions = [targetName |-> Undefined, ciTargetName |-> Undefined]
  /\ phase = "idle"
  /\ configFilePaths = <<>>
  /\ targetsCache = EmptyMap
  /\ pc = <<>>
  /\ res = <<>>
  /\ outcome = "none"
  /\ writes = 0
  /\ runsSinceEdit = 0

(***************************************************************************)
(* SpecBuild: target inference for one configuration file, without the     *)
(* memoization store                                                       *)
(***************************************************************************)
InitBuild ==
  /\ bIn \in BuildInputs
  /\ bOut = Undefined
  /\ nIn = Undefined
  /\ nOut = Undefined
  /\ NoBatch

\* createNodesInternal's normalizeOptions and buildPhpUnitTargets
InferTargets ==
  /\ bOut = Undefined
  /\ bOut' = Some(buildPhpUnitTargets(PhpUnitXml(RootP), dirname(PhpUnitXml(RootP)),
                                      normalizeOptions(bIn.options), contextOf(bIn)))
  /\ UNCHANGED <<bIn, nIn, nOut, batchVars>>

NextBuild == InferTargets
SpecBuild == InitBuild /\ [][NextBuild]_vars

(***************************************************************************)
(* SpecNorm: normalizeOutput on candidate output paths                     *)
(***************************************************************************)
SegA == <<"a">>
SegDotDotC == <<".", ".", "c">>
PathSegments == {DotDot, SegA, SegDotDotC}

\* how many segments a candidate output path holds at most
MaxSegs == 3

CandidatePaths ==
  LET rel == {Join(l, Slash) : l \in UNION {[1..n -> PathSegments] : n \in 0..MaxSegs}}
  IN rel \cup {Slash \o r : r \in rel}

ProjectRoots == {RootP, <<"p", "/", "q">>, Dot}

InitNorm ==
  /\ nIn \in [path : CandidatePaths, projectRoot : ProjectRoots]
  /\ nOut = Undefined
  /\ bIn = Undefined
  /\ bOut = Undefined
  /\ NoBatch

ApplyNormalizeOutput ==
  /\ nOut = Undefined
  /\ nOut' = Some(normalizeOutput(nIn.path, WorkspaceRoot, nIn.projectRoot))
  /\ UNCHANGED <<nIn, bIn, bOut, batchVars>>

NextNorm == ApplyNormalizeOutput
SpecNorm == InitNorm /\ [][NextNorm]_vars

\* the candidate path, resolved against the project root, lies inside it
ResolvesInside(in) ==
  LET root == resolveSegs(<<WorkspaceRoot, in.projectRoot>>)
      full == resolveSegs(<<WorkspaceRoot, in.projectRoot, in.path>>)
  IN Len(full) >= Len(root) /\ SubSeq(full, 1, Len(root)) = root

(* C5: normalizeOutput returns a string beginning with '{projectRoot}' when   *)
(* the path resolved against the project root lies inside the project root,   *)
(* and a string beginning with '{workspaceRoot}' when it escapes it; never a  *)
(* raw path.                                                                  *)
C5_OutputLocality ==
  nOut # Undefined =>
    /\ ResolvesInside(nIn) => StartsWith(Get(nOut), ProjectRootToken)
    /\ ~ResolvesInside(nIn) => StartsWith(Get(nOut), WorkspaceRootToken)

(***************************************************************************)
(* The pool's files and their derived names, written out                   *)
(***************************************************************************)
RelA == <<"t", "/", "a">> \o TestPhp
RelAB == <<"t", "/", "a", "/", "b">> \o TestPhp
RelAdashB == <<"t", "/", "a", "-", "b">> \o TestPhp
RelS == <<"s">> \o TestPhp
DashPhp == <<"T", "e", "s", "t", "-", "p", "h", "p">>

\* a test file's path relative to the project root
ExpectedRel(f) ==
  CASE f = FileA -> RelA
    [] f = FileAB -> RelAB
    [] f = FileAdashB -> RelAdashB
    [] f = FileS -> RelS

\* a test file's relative path with separators and dots turned into hyphens
ExpectedToken(f) ==
  CASE f = FileA -> <<"t", "-", "a">> \o DashPhp
    [] f = FileAB -> <<"t", "-", "a", "-", "b">> \o DashPhp
    [] f = FileAdashB -> <<"t", "-", "a", "-", "b">> \o DashPhp
    [] f = FileS -> <<"s">> \o DashPhp

\* the test files of the suite a configuration declares
SuiteFiles(config) ==
  IF config \in {CfgFull, CfgSame} THEN {FileA, FileAB, FileAdashB}
  ELSE {FileA, FileAB, FileAdashB, FileS}

\* the test files of the input, in discovery order
ExpectedTestFiles(in) ==
  SelectFrom(in.files, [i \in 1..Len(in.files) |-> in.files[i] \in SuiteFiles(in.config)], 1)

ExpectedTargetName(in) ==
  IF in.options.targetName = Undefined THEN DefaultTargetName ELSE Get(in.options.targetName)

ExpectedCiName(ci, f) == ci \o <<"-", "-">> \o ExpectedRel(f)

InProject(x) == ProjectRootToken \o Slash \o x

SeqRange(xs) == {xs[i] : i \in 1..Len(xs)}
NoDuplicates(xs) == \A i, j \in 1..Len(xs) : i # j => xs[i] # xs[j]

Built == bOut # Undefined /\ ~Get(bOut).threw

\* exactly the one target named targetName, and no target group
OnlyBaseTarget ==
  /\ DOMAIN Get(bOut).targets = {ExpectedTargetName(bIn)}
  /\ Get(bOut).metadata = Undefined

(* C3 as stated: when ciTargetName is supplied as empty or undefined, the     *)
(* target mapping holds exactly one target, named targetName, with no         *)
(* per-file targets, no aggregator and no 'Test (CI)' group.                  *)
C3_UnsetDisablesCi ==
  (Built /\ bIn.options.ciTargetName \in {Undefined, Some(<<>>)}) => OnlyBaseTarget

(* C3, amended: an empty ciTargetName disables the CI targets (exactly one    *)
(* target, named targetName, and no group); an undefined ciTargetName stands  *)
(* for 'test-ci', under which the aggregator and the group are generated.     *)
C3_EmptyDisablesCi ==
  Built =>
    /\ bIn.options.ciTargetName = Some(<<>>) => OnlyBaseTarget
    /\ bIn.options.ciTargetName = Undefined =>
         /\ DefaultCiTargetName \in DOMAIN Get(bOut).targets
         /\ Get(bOut).metadata # Undefined

C3_Witness ==
  Built /\ bIn.options.ciTargetName = Some(<<>>) /\ Len(ExpectedTestFiles(bIn)) = 2

\* the targets and the group a configured ciTargetName ci gives
CiTargetsAsSpecified(ci) ==
  LET tn == ExpectedTargetName(bIn)
      tests == ExpectedTestFiles(bIn)
      names == [i \in 1..Len(tests) |-> ExpectedCiName(ci, tests[i])]
      targets == Get(bOut).targets
  IN /\ DOMAIN targets = {tn, ci} \cup SeqRange(names)
     /\ targets[tn].command = Some(PhpUnitCommand)
     /\ \A i \in 1..Len(tests) :
          targets[names[i]].command = Some(PhpUnitCommand \o <<" ">> \o ExpectedRel(tests[i]))
     /\ targets[ci].executor = Some("nx:noop")
     /\ targets[ci].dependsOn =
          Some([i \in 1..Len(tests) |->
                  [target |-> names[i], projects |-> "self", params |-> "forward"]])
     /\ \A d \in SeqRange(Get(targets[ci].dependsOn)) : d.target \in DOMAIN targets
     /\ Get(bOut).metadata =
          Some([targetGroups |-> [g \in {groupName} |-> Append(names, ci)]])

ExpectedCi(in) ==
  IF in.options.ciTargetName = Undefined THEN DefaultCiTargetName
  ELSE Get(in.options.ciTargetName)

(* C4: for any targetName and any non-empty ciTargetName the mapping is the   *)
(* base target under targetName running the test-runner command, one          *)
(* per-file target per discovered test file, and the aggregator under         *)
(* ciTargetName whose dependsOn lists the per-file names in discovery order;  *)
(* every dependsOn name is a key; the group lists them, then ciTargetName.    *)
C4_TargetMapping ==
  (Built /\ bIn.options.ciTargetName \notin {Undefined, Some(<<>>)}) =>
    CiTargetsAsSpecified(ExpectedCi(bIn))

\* targetName is neither ciTargetName nor the name of a per-file target
NamesApart(in) ==
  LET tests == ExpectedTestFiles(in)
  IN /\ ExpectedTargetName(in) # ExpectedCi(in)
     /\ \A i \in 1..Len(tests) :
          ExpectedTargetName(in) # ExpectedCiName(ExpectedCi(in), tests[i])

\* where targetName differs from ciTargetName and from every per-file target
\* name (a default ciTargetName included), the mapping is as described
C4_TargetMappingNamesApart ==
  (Built /\ ExpectedCi(bIn) # <<>> /\ NamesApart(bIn)) =>
    CiTargetsAsSpecified(ExpectedCi(bIn))

NamesApartBuilt ==
  /\ Built
  /\ bIn.options.ciTargetName = Some(NameC)
  /\ bIn.options.targetName = Undefined
  /\ ExpectedTestFiles(bIn) = <<FileAB, FileA>>
  /\ Len(bIn.files) = 3

\* the targets of the test files, by name
FileTargetNames ==
  LET tests == ExpectedTestFiles(bIn)
  IN {ExpectedCiName(ExpectedCi(bIn), tests[i]) : i \in 1..Len(tests)}

(* C6: for any two distinct test files of a project the subfolder tokens are  *)
(* distinct, so the outputs of their per-file targets never coincide.         *)
C6_SubfoldersDistinct ==
  (Built /\ ExpectedCi(bIn) # <<>>) =>
    \A m, n \in FileTargetNames :
      m # n => SeqRange(Get(bOut).targets[m].outputs)
                 \cap SeqRange(Get(bOut).targets[n].outputs) = {}

DeclaresCoverage(in) == in.config.coverage = Some([cacheDirectory |-> Some(Coverage)])

\* the normalized test-output path of the input's configuration
ExpectedTestOutput(in) ==
  IF in.config = CfgFull THEN InProject(CustomOut) ELSE InProject(Coverage)

(* C7 as stated: with coverage cacheDirectory="coverage", the outputs of      *)
(* every generated target include the test-output path and                    *)
(* '{projectRoot}/coverage', and hold no path twice.                          *)
C7_CoverageInEveryTarget ==
  (Built /\ DeclaresCoverage(bIn)) =>
    \A n \in DOMAIN Get(bOut).targets :
      LET outputs == Get(bOut).targets[n].outputs
      IN /\ ExpectedTestOutput(bIn) \in SeqRange(outputs)
         /\ InProject(Coverage) \in SeqRange(outputs)
         /\ NoDuplicates(outputs)

\* the two output paths of a test file's target: each under the file's subfolder
ExpectedFileOutputs(in, f) ==
  {InProject(Coverage \o Slash \o ExpectedToken(f)),
   IF in.config = CfgFull
     THEN InProject(<<"o", "/">> \o ExpectedToken(f) \o <<"/", "r", ".", "c">>)
   ELSE InProject(Coverage \o Slash \o ExpectedToken(f))}

(* C7, amended: with coverage cacheDirectory="coverage", the outputs of the   *)
(* base target and of the aggregator include the test-output path and         *)
(* '{projectRoot}/coverage'; the outputs of a per-file target are these two   *)
(* paths each moved under the file's subfolder; no list holds a path twice.   *)
C7_CoverageUnderSubfolder ==
  (Built /\ DeclaresCoverage(bIn)) =>
    LET tests == ExpectedTestFiles(bIn)
        targets == Get(bOut).targets
    IN /\ \A n \in DOMAIN targets : NoDuplicates(targets[n].outputs)
       /\ \A n \in DOMAIN targets \ FileTargetNames :
            SeqRange(targets[n].outputs) = {ExpectedTestOutput(bIn), InProject(Coverage)}
       /\ ExpectedCi(bIn) # <<>> =>
            \A i \in 1..Len(tests) :
              SeqRange(targets[ExpectedCiName(ExpectedCi(bIn), tests[i])].outputs)
                = ExpectedFileOutputs(bIn, tests[i])

C7_Witness ==
  /\ Built
  /\ bIn.config = CfgSame
  /\ bIn.options.ciTargetName = Undefined
  /\ Len(ExpectedTestFiles(bIn)) = 2

(* C9: missing optional parts of the configuration never cause an error: with *)
(* a configured ciTargetName, a configuration with no cacheResultFile, no     *)
(* coverage and no test-suite directory (or no testsuites element) builds,    *)
(* with the default test output and no coverage output.                       *)
C9_MissingPartsNeverThrow ==
  (bOut # Undefined /\ ExpectedCi(bIn) # <<>> /\ bIn.config \in {CfgBare, CfgNoSuites}) =>
    /\ ~Get(bOut).threw
    /\ Get(bOut).targets[ExpectedTargetName(bIn)].outputs = <<InProject(DefaultTestOutput)>>

(***************************************************************************)
(* Spec: batches of createNodesV2 over a workspace that changes between    *)
(* batches                                                                 *)
(***************************************************************************)
Roots == {RootP, RootQ}
FileQ == <<"q", "/", "t", "/", "a">> \o TestPhp

\* the workspace's files, in enumeration order
WorkspaceFiles == <<FileA, FileQ>>

Manifest(root) == [name |-> <<"v", "/">> \o root]

\* what a project root may hold: composer.json or not, and a phpunit.xml
ProjectContents(r) ==
  IF r = RootP
    THEN [manifest : {Undefined, Some(Manifest(r))}, config : {CfgFull, CfgNoSuites}]
  ELSE [manifest : {Some(Manifest(r))}, config : {CfgBare}]

Workspaces == {w \in [Roots -> UNION {ProjectContents(r) : r \in Roots}] :
                 \A r \in Roots : w[r] \in ProjectContents(r)}

\* the options of the batches: none given, so that the defaults apply
BatchOptions == {[targetName |-> Undefined, ciTargetName |-> Undefined]}

\* how many configuration files a batch is given at most
MaxConfigFiles == 2

\* the lists createNodesV2 may be given: a path may occur twice
ConfigFileLists ==
  UNION {[1..n -> {PhpUnitXml(r) : r \in Roots}] : n \in 1..MaxConfigFiles}

batchContext ==
  [workspaceRoot |-> WorkspaceRoot,
   files |-> WorkspaceFiles,
   namedInputs |-> nxNamedInputs,
   configs |-> [f \in {PhpUnitXml(r) : r \in Roots} |-> projects[dirname(f)].config]]

\* the key of a project: the project root, the options, and the files under it
calculateHashForCreateNodes(projectRoot, normalizedOptions) ==
  <<projectRoot, normalizedOptions, projects[projectRoot],
    getFilesInDirectoryUsingContext(WorkspaceFiles, projectRoot)>>

readTargetsCache(cachePath) == IF cachePath = Undefined THEN EmptyMap ELSE Get(cachePath)

writeTargetsToCache(results) == Some(results)

EmptyResult == [projects |-> EmptyMap]

\* the project createNodesInternal returns from the store's entry
projectResult(projectRoot, entry) ==
  [projects |->
     [r \in {projectRoot} |->
        [name |-> Get(projects[projectRoot].manifest).name,
         root |-> projectRoot,
         targets |-> entry.targets,
         metadata |-> entry.metadata]]]

hasManifest(projectRoot) == projects[projectRoot].manifest # Undefined

\* a variant of enterFile without the composer.json test
enterFileAlways(configFilePath) == [pc |-> "hashing", res |-> Undefined]

\* createNodesInternal up to its first await: no composer.json, no project
enterFile(configFilePath) ==
  IF hasManifest(dirname(configFilePath))
    THEN [pc |-> "hashing", res |-> Undefined]
  ELSE [pc |-> "done", res |-> Some(EmptyResult)]

hashOf(configFilePath) ==
  calculateHashForCreateNodes(dirname(configFilePath), normalizeOptions(pluginOptions))

Init ==
  /\ nxNamedInputs \in NamedInputChoices
  /\ projects \in Workspaces
  /\ pluginOptions \in BatchOptions
  /\ disk = Undefined
  /\ phase = "idle"
  /\ configFilePaths = <<>>
  /\ targetsCache = EmptyMap
  /\ pc = <<>>
  /\ res = <<>>
  /\ outcome = "none"
  /\ writes = 0
  /\ runsSinceEdit = 0
  /\ nIn = Undefined /\ nOut = Undefined /\ bIn = Undefined /\ bOut = Undefined

\* createNodesV2 begins: the store is read, and createNodesFromFiles calls
\* createNodesInternal for every file, each running to its first await
BatchStart ==
  /\ phase \in {"idle", "finished"}
  /\ \E files \in ConfigFileLists :
       /\ configFilePaths' = files
       /\ pc' = [i \in 1..Len(files) |-> enterFile(files[i]).pc]
       /\ res' = [i \in 1..Len(files) |-> enterFile(files[i]).res]
  /\ targetsCache' = readTargetsCache(disk)
  /\ phase' = "running"
  /\ outcome' = "none"
  /\ writes' = 0
  /\ runsSinceEdit' = IF runsSinceEdit < 2 THEN runsSinceEdit + 1 ELSE runsSinceEdit
  /\ UNCHANGED <<nxNamedInputs, projects, disk, pluginOptions, callVars>>

\* a variant of AfterHash that assigns with = instead of ??=: a hit is ignored
AfterHashNoCheck(i) ==
  /\ phase = "running"
  /\ pc[i] = "hashing"
  /\ IF buildPhpUnitTargets(configFilePaths[i], dirname(configFilePaths[i]),
                            normalizeOptions(pluginOptions), batchContext).threw
       THEN pc' = [pc EXCEPT ![i] = "failed"]
     ELSE pc' = [pc EXCEPT ![i] = "building"]
  /\ UNCHANGED <<nxNamedInputs, projects, disk, pluginOptions, phase, configFilePaths,
                 targetsCache, res, outcome, writes, runsSinceEdit, callVars>>

\* after the hash: targetsCache[hash] ??= await buildPhpUnitTargets(...), up to
\* the await; a hit returns the entry, a miss starts the build, which may throw
AfterHash(i) ==
  /\ phase = "running"
  /\ pc[i] = "hashing"
  /\ LET hash == hashOf(configFilePaths[i])
         projectRoot == dirname(configFilePaths[i])
     IN IF hash \in DOMAIN targetsCache
          THEN /\ pc' = [pc EXCEPT ![i] = "done"]
               /\ res' = [res EXCEPT ![i] = Some(projectResult(projectRoot, targetsCache[hash]))]
        ELSE IF buildPhpUnitTargets(configFilePaths[i], projectRoot,
                                    normalizeOptions(pluginOptions), batchContext).threw
          THEN /\ pc' = [pc EXCEPT ![i] = "failed"]
               /\ res' = res
        ELSE /\ pc' = [pc EXCEPT ![i] = "building"]
             /\ res' = res
  /\ UNCHANGED <<nxNamedInputs, projects, disk, pluginOptions, phase, configFilePaths,
                 targetsCache, outcome, writes, runsSinceEdit, callVars>>

\* the build resolved: the entry is assigned, and the project returned from it
AfterBuild(i) ==
  /\ phase = "running"
  /\ pc[i] = "building"
  /\ LET hash == hashOf(configFilePaths[i])
         projectRoot == dirname(configFilePaths[i])
         built == buildPhpUnitTargets(configFilePaths[i], projectRoot,
                                      normalizeOptions(pluginOptions), batchContext)
         entry == [targets |-> built.targets, metadata |-> built.metadata]
     IN /\ targetsCache' = Put(targetsCache, hash, entry)
        /\ res' = [res EXCEPT ![i] = Some(projectResult(projectRoot, entry))]
  /\ pc' = [pc EXCEPT ![i] = "done"]
  /\ UNCHANGED <<nxNamedInputs, projects, disk, pluginOptions, phase, configFilePaths,
                 outcome, writes, runsSinceEdit, callVars>>

\* createNodesFromFiles settles once every file has: it throws if a file failed
Settle ==
  /\ phase = "running"
  /\ \A i \in 1..Len(pc) : pc[i] \in {"done", "failed"}
  /\ outcome' = IF \E i \in 1..Len(pc) : pc[i] = "failed" THEN "threw" ELSE "returned"
  /\ phase' = "finally"
  /\ UNCHANGED <<nxNamedInputs, projects, disk, pluginOptions, configFilePaths, targetsCache,
                 pc, res, writes, runsSinceEdit, callVars>>

\* a variant of Finally that writes the store after the try block instead: only
\* when createNodesFromFiles returned
FinallyOnSuccess ==
  /\ phase = "finally"
  /\ disk' = IF outcome = "returned" THEN writeTargetsToCache(targetsCache) ELSE disk
  /\ writes' = IF outcome = "returned" THEN writes + 1 ELSE writes
  /\ phase' = "finished"
  /\ UNCHANGED <<nxNamedInputs, projects, pluginOptions, configFilePaths, targetsCache,
                 pc, res, outcome, runsSinceEdit, callVars>>

\* the finally block: the store is written, then the batch returns or throws
Finally ==
  /\ phase = "finally"
  /\ disk' = writeTargetsToCache(targetsCache)
  /\ writes' = writes + 1
  /\ phase' = "finished"
  /\ UNCHANGED <<nxNamedInputs, projects, pluginOptions, configFilePaths, targetsCache,
                 pc, res, outcome, runsSinceEdit, callVars>>

\* between batches the workspace or the store changes: the record of the last
\* batch is dropped
Forget ==
  /\ phase' = "idle"
  /\ configFilePaths' = <<>>
  /\ targetsCache' = EmptyMap
  /\ pc' = <<>>
  /\ res' = <<>>
  /\ outcome' = "none"
  /\ writes' = 0

EditNamedInputs ==
  /\ phase \in {"idle", "finished"}
  /\ \E n \in NamedInputChoices : n # nxNamedInputs /\ nxNamedInputs' = n
  /\ Forget
  /\ runsSinceEdit' = 0
  /\ UNCHANGED <<projects, disk, pluginOptions, callVars>>

EditProject ==
  /\ phase \in {"idle", "finished"}
  /\ \E r \in Roots : \E c \in ProjectContents(r) :
       c # projects[r] /\ projects' = [projects EXCEPT ![r] = c]
  /\ Forget
  /\ runsSinceEdit' = 0
  /\ UNCHANGED <<nxNamedInputs, disk, pluginOptions, callVars>>

\* the store is cleared (the file is removed)
ClearStore ==
  /\ phase \in {"idle", "finished"}
  /\ disk # Undefined
  /\ disk' = Undefined
  /\ Forget
  /\ UNCHANGED <<nxNamedInputs, projects, pluginOptions, runsSinceEdit, callVars>>

Next ==
  \/ BatchStart
  \/ \E i \in 1..Len(pc) : AfterHash(i)
  \/ \E i \in 1..Len(pc) : AfterBuild(i)
  \/ Settle
  \/ Finally
  \/ EditNamedInputs
  \/ EditProject
  \/ ClearStore

Spec == Init /\ [][Next]_vars

Finished == phase = "finished"

(* C1: in every batch the store is written back exactly once, whether every   *)
(* file is processed or the processing of a file raises an error: no batch    *)
(* ends without the write, and none writes twice.                             *)
C1_StoreWrittenOnce ==
  /\ writes <= 1
  /\ phase \in {"running", "finally"} => writes = 0
  /\ Finished => writes = 1

C1_Witness ==
  /\ Finished
  /\ outcome = "threw"
  /\ writes = 1
  /\ \E i \in 1..Len(pc) : pc[i] = "done" /\ Get(res[i]) # EmptyResult
  /\ disk = Some(targetsCache)

\* what createNodesInternal returns for a file when nothing is memoized
freshResult(configFilePath) ==
  IF ~hasManifest(dirname(configFilePath)) THEN EmptyResult
  ELSE projectResult(dirname(configFilePath),
         LET built == buildPhpUnitTargets(configFilePath, dirname(configFilePath),
                                          normalizeOptions(pluginOptions), batchContext)
         IN [targets |-> built.targets, metadata |-> built.metadata])

freshThrows(configFilePath) ==
  /\ hasManifest(dirname(configFilePath))
  /\ buildPhpUnitTargets(configFilePath, dirname(configFilePath),
                         normalizeOptions(pluginOptions), batchContext).threw

(* C2: with the workspace and the options unchanged since the previous batch, *)
(* a batch that starts from the store that batch persisted returns for every  *)
(* file what a batch starting from an empty store returns: what               *)
(* buildPhpUnitTargets computes afresh.                                       *)
C2_CachedEqualsFresh ==
  (Finished /\ runsSinceEdit = 2) =>
    \A i \in 1..Len(pc) :
      /\ pc[i] = "failed" <=> freshThrows(configFilePaths[i])
      /\ pc[i] = "done" => res[i] = Some(freshResult(configFilePaths[i]))

(* C8: a configuration file whose directory holds no package manifest         *)
(* contributes no project and raises no error; its processing returns before  *)
(* any target is built, so nothing is memoized for it.                        *)
C8_SkipWithoutManifest ==
  phase # "idle" =>
    \A i \in 1..Len(pc) :
      ~hasManifest(dirname(configFilePaths[i])) =>
        /\ pc[i] = "done"
        /\ res[i] = Some(EmptyResult)
        /\ hashOf(configFilePaths[i]) \notin DOMAIN targetsCache

C8_Witness ==
  /\ Finished
  /\ outcome = "returned"
  /\ \E i \in 1..Len(pc) : ~hasManifest(dirname(configFilePaths[i]))
  /\ \E i \in 1..Len(pc) : hasManifest(dirname(configFilePaths[i]))

\* every entry of the store stays, bound to the same value
EntriesKept ==
  \A k \in DOMAIN targetsCache : k \in DOMAIN targetsCache' /\ targetsCache'[k] = targetsCache[k]

\* the persisted store binds the key of every file that returned a project to
\* what the file returned
PersistedAsReturned ==
  \A i \in 1..Len(pc) :
    (pc[i] = "done" /\ hasManifest(dirname(configFilePaths[i]))) =>
      /\ hashOf(configFilePaths[i]) \in DOMAIN Get(disk)
      /\ res[i] = Some(projectResult(dirname(configFilePaths[i]),
                                     Get(disk)[hashOf(configFilePaths[i])]))

(* C10: under every interleaving of a batch's files the in-memory store only  *)
(* gains entries: a key present (loaded or written earlier) is never removed  *)
(* nor rebound to another value, two computations in flight for one key write *)
(* the same value, and the value persisted at the end for a key is what every *)
(* file with that key returned.                                               *)
C10_StoreOnlyGains ==
  [][/\ phase \in {"running", "finally"} => EntriesKept
     /\ Finished => PersistedAsReturned]_vars

C10_Witness ==
  /\ phase = "running"
  /\ Len(pc) = 2
  /\ configFilePaths[1] = configFilePaths[2]
  /\ pc[1] = "done"
  /\ pc[2] = "building"
  /\ hashOf(configFilePaths[1]) \in DOMAIN targetsCache
====
